---- MODULE Spec2Model ----
(***************************************************************************)
(* Model of transcribe_app.py: one press of the "start transcription"      *)
(* button.  The run saves the upload, converts it to WAV, cuts the WAV in   *)
(* chunks of CHUNK_LENGTH_MS, sends each chunk to model.transcribe in a     *)
(* for loop, joins the texts and shows them; one try/except/finally wraps   *)
(* the whole run.  Each action is one stretch of straight-line code between *)
(* two points where the environment decides something (the conversion, the  *)
(* backend call, a widget call).                                            *)
(***************************************************************************)
EXTENDS Integers, Sequences, FiniteSets, TLC

VARIABLES
    uploaded_file,      \* the upload: [duration, decodable] (what pydub will find in it)
    pc,                 \* position of the script in the run
    total_length_ms,    \* local of the run, Unbound until line 97
    num_chunks,         \* local of the run, Unbound until line 98
    i,                  \* loop variable of line 108
    all_transcripts,    \* list of line 73
    chunk_files,        \* chunk_{i}.wav files exported to tmpdir, with their bounds
    transcribe_calls,   \* chunk indices handed to model.transcribe, in call order
    transcribe_results, \* what each finished call gave: text or exception
    progress_bar,       \* what the st.progress widget shows now
    progress_log,       \* every progress_bar.progress(...) call, in order
    status_text,        \* what the st.empty placeholder shows now
    page,               \* st.info/success/warning/error/write/code elements, in order
    text_area,          \* content of the result st.text_area ({} when not rendered)
    download_button,    \* data of the st.download_button ({} when not rendered)
    exc,                \* exception raised inside the try block
    uncaught            \* an exception left the except handler

vars == <<uploaded_file, pc, total_length_ms, num_chunks, i, all_transcripts,
          chunk_files, transcribe_calls, transcribe_results, progress_bar,
          progress_log, status_text, page, text_area, download_button, exc,
          uncaught>>

----------------------------------------------------------------------------
(* Constants and input domains *)

CHUNK_LENGTH_MS == 10 * 60 * 1000

\* Largest number of chunks an uploaded recording is cut into.
MaxChunks == 3

\* Largest duration and chunk length for which the expression of line 98 is
\* also evaluated with chunk lengths other than CHUNK_LENGTH_MS.
MaxSmall == 8

\* A Python local that is not bound yet.
Unbound == -1

\* Lengths around every chunk boundary: exact multiples, one past, midway, one short.
Remainders == {0, 1, CHUNK_LENGTH_MS \div 2, CHUNK_LENGTH_MS - 1}

Durations ==
    {k * CHUNK_LENGTH_MS + r : k \in 0..(MaxChunks - 1), r \in Remainders}
        \cup {MaxChunks * CHUNK_LENGTH_MS}

\* result["text"] values, as sequences of characters; Whisper texts may be empty
\* and may begin or end with a blank.
Texts == {<< >>, <<"a">>, <<" ", "b">>, <<"c", " ">>}

\* Exceptions model.transcribe may raise.  names_file: the message quotes the
\* path it was given (chunk_{i}.wav), as a failure to read the file does.
BackendErrors == [cause : {"RuntimeError"}, names_file : BOOLEAN]

\* Characters str.strip() removes.
Whitespace == {" ", "\t", "\n"}

----------------------------------------------------------------------------
(* Pure computations of the run *)

\* Faulty variant of CeilDiv: int(a / b), the last partial chunk is lost.
CeilDivFloor(a, b) == a \div b

\* math.ceil(a / b) for ints a >= 0, b > 0 (line 98).  a / b is a float division;
\* for the magnitudes of a millisecond duration the quotient of a non-multiple
\* stays strictly between its two neighbouring integers, so the result is the
\* integer ceiling.
CeilDiv(a, b) == IF a % b = 0 THEN a \div b ELSE (a \div b) + 1

\* line 111: 15 + int((current_chunk_num / num_chunks) * 85)
progress_percentage(current_chunk_num, n) == 15 + ((current_chunk_num * 85) \div n)

Min(a, b) == IF a <= b THEN a ELSE b

\* line 115
start_ms(k) == k * CHUNK_LENGTH_MS

\* Faulty variant of end_ms: the min() with the total length is forgotten.
end_ms_nomin(k, total) == (k + 1) * CHUNK_LENGTH_MS

\* line 116
end_ms(k, total) == Min((k + 1) * CHUNK_LENGTH_MS, total)

\* " ".join(list)
RECURSIVE Join(_)
Join(list) ==
    IF list = << >> THEN << >>
    ELSE IF Len(list) = 1 THEN Head(list)
    ELSE Head(list) \o <<" ">> \o Join(Tail(list))

\* str.lstrip(), str.rstrip(), str.strip()
RECURSIVE LStrip(_)
LStrip(s) ==
    IF s # << >> /\ Head(s) \in Whitespace THEN LStrip(Tail(s)) ELSE s

RECURSIVE RStrip(_)
RStrip(s) ==
    IF s # << >> /\ s[Len(s)] \in Whitespace
    THEN RStrip(SubSeq(s, 1, Len(s) - 1)) ELSE s

Strip(s) == RStrip(LStrip(s))

\* line 135
full_transcript(list) == Strip(Join(list))

\* str.encode('utf-8') on the characters of Texts (all ASCII: one byte each)
CodePoint(c) ==
    CASE c = "a" -> 97 [] c = "b" -> 98 [] c = "c" -> 99
      [] c = " " -> 32 [] c = "\t" -> 9 [] c = "\n" -> 10

Utf8(s) == [k \in 1..Len(s) |-> CodePoint(s[k])]

----------------------------------------------------------------------------
(* Widgets *)

Progress(value, text, chunk, total) ==
    [value |-> value, text |-> text, chunk |-> chunk, total |-> total]

Status(kind, text, chunk, total) ==
    [kind |-> kind, text |-> text, chunk |-> chunk, total |-> total]

Element(kind, text, detail) == [kind |-> kind, text |-> text, detail |-> detail]

NoException == [kind |-> "none", cause |-> "", file |-> Unbound]

\* progress_bar.progress(value, text=...)
SetProgress(p) ==
    /\ progress_bar' = p
    /\ progress_log' = Append(progress_log, p)

----------------------------------------------------------------------------
(* The run *)

Init ==
    /\ uploaded_file \in [duration : Durations, decodable : BOOLEAN]
    /\ pc = "idle"
    /\ total_length_ms = Unbound
    /\ num_chunks = Unbound
    /\ i = 0
    /\ all_transcripts = << >>
    /\ chunk_files = << >>
    /\ transcribe_calls = << >>
    /\ transcribe_results = << >>
    /\ progress_bar = Progress(0, "absent", 0, 0)
    /\ progress_log = << >>
    /\ status_text = Status("empty", "", 0, 0)
    /\ page = << >>
    /\ text_area = {}
    /\ download_button = {}
    /\ exc = NoException
    /\ uncaught = FALSE

\* lines 63-67: the button is pressed
Start ==
    /\ pc = "idle"
    /\ page' = Append(page, Element("info", "starting", << >>))
    /\ progress_bar' = Progress(0, "preparing", 0, 0)
    /\ status_text' = Status("empty", "", 0, 0)
    /\ pc' = "save"
    /\ UNCHANGED <<uploaded_file, total_length_ms, num_chunks, i, all_transcripts,
                   chunk_files, transcribe_calls, transcribe_results, progress_log,
                   text_area, download_button, exc, uncaught>>

\* lines 70-78
SaveUpload ==
    /\ pc = "save"
    /\ all_transcripts' = << >>
    /\ status_text' = Status("text", "saving", 0, 0)
    /\ SetProgress(Progress(5, "saving", 0, 0))
    /\ pc' = "convert_begin"
    /\ UNCHANGED <<uploaded_file, total_length_ms, num_chunks, i, chunk_files,
                   transcribe_calls, transcribe_results, page, text_area,
                   download_button, exc, uncaught>>

\* lines 80-81
ConvertBegin ==
    /\ pc = "convert_begin"
    /\ status_text' = Status("text", "converting", 0, 0)
    /\ SetProgress(Progress(10, "converting", 0, 0))
    /\ pc' = "convert"
    /\ UNCHANGED <<uploaded_file, total_length_ms, num_chunks, i, all_transcripts,
                   chunk_files, transcribe_calls, transcribe_results, page,
                   text_area, download_button, exc, uncaught>>

\* lines 82-88: from_file, set_channels, set_frame_rate, export succeed
ConvertOk ==
    /\ pc = "convert"
    /\ uploaded_file.decodable
    /\ page' = Append(page, Element("success", "converted", << >>))
    /\ pc' = "prepare"
    /\ UNCHANGED <<uploaded_file, total_length_ms, num_chunks, i, all_transcripts,
                   chunk_files, transcribe_calls, transcribe_results, progress_bar,
                   progress_log, status_text, text_area, download_button, exc,
                   uncaught>>

\* Faulty variant of ConvertFail: the handler of line 89 does not re-raise.
ConvertFailSwallowed ==
    /\ pc = "convert"
    /\ ~uploaded_file.decodable
    /\ page' = page \o <<Element("error", "conversion failed", <<"ConversionError">>),
                         Element("error", "check ffmpeg", << >>)>>
    /\ pc' = "prepare"
    /\ UNCHANGED <<uploaded_file, total_length_ms, num_chunks, i, all_transcripts,
                   chunk_files, transcribe_calls, transcribe_results, progress_bar,
                   progress_log, status_text, text_area, download_button, exc,
                   uncaught>>

\* lines 89-92: the conversion raises; two st.error, then re-raise
ConvertFail ==
    /\ pc = "convert"
    /\ ~uploaded_file.decodable
    /\ page' = page \o <<Element("error", "conversion failed", <<"ConversionError">>),
                         Element("error", "check ffmpeg", << >>)>>
    /\ exc' = [kind |-> "conversion", cause |-> "ConversionError", file |-> Unbound]
    /\ pc' = "except"
    /\ UNCHANGED <<uploaded_file, total_length_ms, num_chunks, i, all_transcripts,
                   chunk_files, transcribe_calls, transcribe_results, progress_bar,
                   progress_log, status_text, text_area, download_button, uncaught>>

\* lines 94-103 (and 107 when there are chunks)
Prepare ==
    /\ pc = "prepare"
    /\ SetProgress(Progress(15, "preparing transcription", 0, 0))
    /\ total_length_ms' = uploaded_file.duration
    /\ num_chunks' = CeilDiv(total_length_ms', CHUNK_LENGTH_MS)
    /\ page' = page \o <<Element("write", "length", <<total_length_ms'>>),
                         Element("write", "chunks", <<num_chunks'>>)>>
    /\ status_text' = IF num_chunks' = 0
                      THEN Status("text", "preparing chunks", 0, 0)
                      ELSE Status("text", "starting chunks", 0, num_chunks')
    /\ pc' = IF num_chunks' = 0 THEN "skip" ELSE "chunk"
    /\ UNCHANGED <<uploaded_file, i, all_transcripts, chunk_files, transcribe_calls,
                   transcribe_results, text_area, download_button, exc, uncaught>>

\* Faulty variant of Skip: the empty branch renders the (empty) result too.
SkipShowsTranscript ==
    /\ pc = "skip"
    /\ page' = Append(page, Element("warning", "empty or too short", << >>))
    /\ SetProgress(Progress(100, "skipped", 0, 0))
    /\ text_area' = {full_transcript(all_transcripts)}
    /\ download_button' = {Utf8(full_transcript(all_transcripts))}
    /\ pc' = "finally"
    /\ UNCHANGED <<uploaded_file, total_length_ms, num_chunks, i, all_transcripts,
                   chunk_files, transcribe_calls, transcribe_results, status_text,
                   exc, uncaught>>

\* lines 103-105: num_chunks == 0
Skip ==
    /\ pc = "skip"
    /\ page' = Append(page, Element("warning", "empty or too short", << >>))
    /\ SetProgress(Progress(100, "skipped", 0, 0))
    /\ pc' = "finally"
    /\ UNCHANGED <<uploaded_file, total_length_ms, num_chunks, i, all_transcripts,
                   chunk_files, transcribe_calls, transcribe_results, status_text,
                   text_area, download_button, exc, uncaught>>

\* lines 108-120: head of one loop iteration, up to the exported chunk file
ChunkHead ==
    /\ pc = "chunk"
    /\ i < num_chunks
    /\ LET current_chunk_num == i + 1 IN
        /\ SetProgress(Progress(progress_percentage(current_chunk_num, num_chunks),
                                "processing", current_chunk_num, num_chunks))
        /\ status_text' = Status("text", "processing", current_chunk_num, num_chunks)
    /\ chunk_files' = Append(chunk_files,
                             [index |-> i, start_ms |-> start_ms(i),
                              end_ms |-> end_ms(i, total_length_ms)])
    /\ pc' = "transcribe"
    /\ UNCHANGED <<uploaded_file, total_length_ms, num_chunks, i, all_transcripts,
                   transcribe_calls, transcribe_results, page, text_area,
                   download_button, exc, uncaught>>

\* line 124: model.transcribe(chunk_wav_path, ...) is entered
TranscribeCall ==
    /\ pc = "transcribe"
    /\ transcribe_calls' = Append(transcribe_calls, i)
    /\ pc' = "in_backend"
    /\ UNCHANGED <<uploaded_file, total_length_ms, num_chunks, i, all_transcripts,
                   chunk_files, transcribe_results, progress_bar, progress_log,
                   status_text, page, text_area, download_button, exc, uncaught>>

\* Faulty variant of NextIndex: the loop stays on the same chunk.
NextIndexStuck(k) == k

\* line 108: range(num_chunks) gives k + 1 after k.
NextIndex(k) == k + 1

\* Faulty variant of Appended: the text is put in front of the list.
AppendedFront(list, t) == <<t>> \o list

\* line 126: all_transcripts.append(chunk_transcript)
Appended(list, t) == Append(list, t)

\* lines 124-129: the call returns a text
TranscribeReturn ==
    /\ pc = "in_backend"
    /\ \E chunk_transcript \in Texts :
        /\ transcribe_results' =
               Append(transcribe_results,
                      [index |-> i, ok |-> TRUE, text |-> chunk_transcript])
        /\ all_transcripts' = Appended(all_transcripts, chunk_transcript)
    /\ i' = NextIndex(i)
    /\ pc' = IF i' < num_chunks THEN "chunk" ELSE "finish"
    /\ UNCHANGED <<uploaded_file, total_length_ms, num_chunks, chunk_files,
                   transcribe_calls, progress_bar, progress_log, status_text, page,
                   text_area, download_button, exc, uncaught>>

\* Faulty variant of TranscribeRaise: the failure is swallowed in the loop, an
\* empty text is recorded and the loop goes on.
TranscribeRaiseContinues ==
    /\ pc = "in_backend"
    /\ \E e \in BackendErrors :
        /\ transcribe_results' =
               Append(transcribe_results, [index |-> i, ok |-> FALSE, text |-> << >>])
        /\ all_transcripts' = Append(all_transcripts, << >>)
    /\ i' = i + 1
    /\ pc' = IF i' < num_chunks THEN "chunk" ELSE "finish"
    /\ UNCHANGED <<uploaded_file, total_length_ms, num_chunks, chunk_files,
                   transcribe_calls, progress_bar, progress_log, status_text, page,
                   text_area, download_button, exc, uncaught>>

\* line 124: the call raises; nothing in the loop catches it, control goes to
\* line 159
TranscribeRaise ==
    /\ pc = "in_backend"
    /\ \E e \in BackendErrors :
        /\ transcribe_results' =
               Append(transcribe_results, [index |-> i, ok |-> FALSE, text |-> << >>])
        /\ exc' = [kind |-> "backend", cause |-> e.cause,
                   file |-> IF e.names_file THEN i ELSE Unbound]
    /\ pc' = "except"
    /\ UNCHANGED <<uploaded_file, total_length_ms, num_chunks, i, all_transcripts,
                   chunk_files, transcribe_calls, progress_bar, progress_log,
                   status_text, page, text_area, download_button, uncaught>>

\* lines 131-142: after the loop
Finish ==
    /\ pc = "finish"
    /\ SetProgress(Progress(100, "completed", 0, 0))
    /\ status_text' = Status("success", "all chunks completed", 0, 0)
    /\ page' = Append(page, Element("subheader", "result", << >>))
    /\ text_area' = {full_transcript(all_transcripts)}
    /\ download_button' = {Utf8(full_transcript(all_transcripts))}
    /\ pc' = "finally"
    /\ UNCHANGED <<uploaded_file, total_length_ms, num_chunks, i, all_transcripts,
                   chunk_files, transcribe_calls, transcribe_results, exc, uncaught>>

\* lines 159-164: except Exception as e
Except ==
    /\ pc = "except"
    /\ page' = page \o <<Element("error", "unexpected error", << >>),
                         Element("error", "error content", <<exc.cause, exc.file>>),
                         Element("code", "traceback", <<exc.cause, exc.file>>)>>
    /\ SetProgress(Progress(100, "error", 0, 0))
    /\ status_text' = Status("error", "aborted", 0, 0)
    /\ pc' = "finally"
    /\ UNCHANGED <<uploaded_file, total_length_ms, num_chunks, i, all_transcripts,
                   chunk_files, transcribe_calls, transcribe_results, text_area,
                   download_button, exc, uncaught>>

\* lines 166-168: finally
Finally ==
    /\ pc = "finally"
    /\ page' = Append(page, Element("info", "total time", << >>))
    /\ pc' = "done"
    /\ UNCHANGED <<uploaded_file, total_length_ms, num_chunks, i, all_transcripts,
                   chunk_files, transcribe_calls, transcribe_results, progress_bar,
                   progress_log, status_text, text_area, download_button, exc,
                   uncaught>>

Next ==
    \/ Start
    \/ SaveUpload
    \/ ConvertBegin
    \/ ConvertOk
    \/ ConvertFail
    \/ Prepare
    \/ Skip
    \/ ChunkHead
    \/ TranscribeCall
    \/ TranscribeReturn
    \/ TranscribeRaise
    \/ Finish
    \/ Except
    \/ Finally

\* The run with well-behaved st.progress / st.empty widgets.
Spec == Init /\ [][Next]_vars

----------------------------------------------------------------------------
(* The same run with widgets that may raise.  Every progress_bar / status_text *)
(* call of lines 75-132 is an ordinary call inside the try block of line 69.    *)

\* Positions whose next statement group starts with (or, for "skip", contains)
\* a progress_bar / status_text call: lines 75, 80, 94, 105, 112, 131.
SinkPoints == {"save", "convert_begin", "prepare", "skip", "chunk", "finish"}

\* A widget call inside the try block raises: control goes to line 159.
SinkRaises ==
    /\ pc \in SinkPoints
    /\ page' = IF pc = "skip"
               THEN Append(page, Element("warning", "empty or too short", << >>))
               ELSE page
    /\ exc' = [kind |-> "sink", cause |-> "SinkError", file |-> Unbound]
    /\ pc' = "except"
    /\ UNCHANGED <<uploaded_file, total_length_ms, num_chunks, i, all_transcripts,
                   chunk_files, transcribe_calls, transcribe_results, progress_bar,
                   progress_log, status_text, text_area, download_button, uncaught>>

\* lines 160-163: the handler shows the error, then its own progress_bar call
\* raises; nothing catches that, the finally clause still runs.
ExceptSinkRaises ==
    /\ pc = "except"
    /\ page' = page \o <<Element("error", "unexpected error", << >>),
                         Element("error", "error content", <<exc.cause, exc.file>>),
                         Element("code", "traceback", <<exc.cause, exc.file>>)>>
    /\ uncaught' = TRUE
    /\ pc' = "finally"
    /\ UNCHANGED <<uploaded_file, total_length_ms, num_chunks, i, all_transcripts,
                   chunk_files, transcribe_calls, transcribe_results, progress_bar,
                   progress_log, status_text, text_area, download_button, exc>>

NextSink ==
    \/ Next
    \/ SinkRaises
    \/ ExceptSinkRaises

SpecSink == Init /\ [][NextSink]_vars

----------------------------------------------------------------------------
(* Vocabulary of the properties *)

L == CHUNK_LENGTH_MS

Ended == pc \in {"finally", "done"}

\* The run reached its end without any exception.
Succeeded == pc = "done" /\ exc.kind = "none" /\ ~uncaught

NumResults == Len(transcribe_results)

AllCallsOk == \A j \in 1..NumResults : transcribe_results[j].ok

\* The text the backend returned for chunk index k.
TextOf(k) ==
    LET j == CHOOSE j \in 1..NumResults : transcribe_results[j].index = k
    IN  transcribe_results[j].text

\* Position just before the text of chunk k in the space-separated string.
RECURSIVE Offset(_)
Offset(k) == IF k = 0 THEN 0 ELSE Offset(k - 1) + Len(TextOf(k - 1)) + 1

\* The texts of chunks 0..n-1 laid out left to right, one blank between
\* neighbours: position p holds the character of the text covering it.
SpaceSeparated(n) ==
    IF n = 0 THEN << >>
    ELSE [p \in 1..(Offset(n - 1) + Len(TextOf(n - 1))) |->
            IF \E k \in 0..(n - 1) : Offset(k) < p /\ p <= Offset(k) + Len(TextOf(k))
            THEN LET k == CHOOSE k \in 0..(n - 1) :
                              Offset(k) < p /\ p <= Offset(k) + Len(TextOf(k))
                 IN  TextOf(k)[p - Offset(k)]
            ELSE " "]

\* t is r without its leading and trailing whitespace.
IsTrimOf(t, r) ==
    /\ t = << >> \/ (t[1] \notin Whitespace /\ t[Len(t)] \notin Whitespace)
    /\ \E a, b \in 0..Len(r) :
        /\ a + b <= Len(r)
        /\ t = SubSeq(r, a + 1, Len(r) - b)
        /\ \A p \in 1..a : r[p] \in Whitespace
        /\ \A p \in (Len(r) - b + 1)..Len(r) : r[p] \in Whitespace

\* An error element on the page carrying the given cause.
ErrorShown(cause) ==
    \E p \in 1..Len(page) :
        /\ page[p].kind = "error"
        /\ page[p].detail # << >>
        /\ page[p].detail[1] = cause

\* Something the user is shown names chunk index k: the error message or the
\* traceback quotes chunk_{k}.wav, or a widget still shows "chunk k+1/n".
SegmentIdentified(k) ==
    \/ \E p \in 1..Len(page) :
        /\ page[p].kind \in {"error", "code"}
        /\ Len(page[p].detail) = 2
        /\ page[p].detail[2] = k
    \/ progress_bar.chunk = k + 1
    \/ status_text.chunk = k + 1

----------------------------------------------------------------------------
(* Properties *)

\* C1: the segment count computed from a duration D >= 0 is ceil(D / L), the
\* least n with n * L >= D; it is 0 exactly when D = 0 and 1 for 0 < D <= L;
\* and a run that ends without error has cut and transcribed exactly that
\* many segments.  The expression of line 98 gives the ceiling for other
\* chunk lengths as well.
C1_SegmentCountIsCeiling ==
    /\ \A a \in 0..MaxSmall, b \in 1..MaxSmall :
          LET n == CeilDiv(a, b)
          IN  n * b >= a /\ (n - 1) * b < a /\ (n = 0 <=> a = 0)
    /\ num_chunks # Unbound =>
        /\ total_length_ms = uploaded_file.duration
        /\ num_chunks >= 0
        /\ num_chunks * L >= total_length_ms
        /\ (num_chunks - 1) * L < total_length_ms
        /\ (num_chunks = 0 <=> total_length_ms = 0)
        /\ (0 < total_length_ms /\ total_length_ms <= L => num_chunks = 1)
        /\ (Succeeded =>
                /\ Len(chunk_files) = num_chunks
                /\ Len(transcribe_calls) = num_chunks)

C1_Witness ==
    /\ Succeeded
    /\ total_length_ms = L + 1
    /\ num_chunks = 2
    /\ Len(chunk_files) = 2

\* Instants at which coverage is probed: around every chunk boundary and at
\* the very end of the recording.
ProbeInstants(D) ==
    {t \in {k * L + d : k \in 0..(MaxChunks + 1), d \in {-1, 0, 1}} \cup {D - 1} :
        0 <= t /\ t < D}

\* C2: the segments cut so far are [j*L, min((j+1)*L, D)) for j = 0, 1, ...:
\* each is non-empty, starts where the previous one ended, and ends at or
\* before D; every segment but the last has length L, the last has length
\* D mod L (L when that is 0); once all are cut, every instant of [0, D) lies
\* in exactly one of them.
C2_SegmentsPartitionTrack ==
    LET D == total_length_ms
        n == Len(chunk_files)
    IN  /\ \A j \in 1..n :
            LET c == chunk_files[j] IN
            /\ c.index = j - 1
            /\ c.start_ms = (j - 1) * L
            /\ c.start_ms < c.end_ms
            /\ c.end_ms <= D
            /\ (j = 1 => c.start_ms = 0)
            /\ (j > 1 => chunk_files[j - 1].end_ms = c.start_ms)
            /\ (j < num_chunks => c.end_ms - c.start_ms = L)
            /\ (j = num_chunks =>
                    /\ c.end_ms = D
                    /\ c.end_ms - c.start_ms = (IF D % L = 0 THEN L ELSE D % L))
        /\ n <= (IF num_chunks = Unbound THEN 0 ELSE num_chunks)
        /\ (n > 0 /\ n = num_chunks =>
                \A t \in ProbeInstants(D) :
                    Cardinality({j \in 1..n : chunk_files[j].start_ms <= t
                                              /\ t < chunk_files[j].end_ms}) = 1)

C2_Witness ==
    /\ Succeeded
    /\ total_length_ms = 900000
    /\ chunk_files = <<[index |-> 0, start_ms |-> 0, end_ms |-> 600000],
                       [index |-> 1, start_ms |-> 600000, end_ms |-> 900000]>>

\* C3: whenever a transcript is shown, it is the texts the backend returned for
\* chunks 0, 1, ..., n-1, in that order, one blank between neighbours, with the
\* whitespace at both ends of the whole string removed; the download carries the
\* same string; and a run in which every call succeeded does show it.
C3_TranscriptIsOrderedJoin ==
    /\ \A t \in text_area :
        /\ NumResults = num_chunks
        /\ AllCallsOk
        /\ \A k \in 0..(num_chunks - 1) : transcribe_results[k + 1].index = k
        /\ IsTrimOf(t, SpaceSeparated(num_chunks))
        /\ \A d \in download_button :
              Len(d) = Len(t) /\ \A p \in 1..Len(t) : d[p] = CodePoint(t[p])
    /\ Cardinality(text_area) <= 1
    /\ (text_area = {} <=> download_button = {})
    /\ (Succeeded /\ num_chunks > 0 => text_area # {})

C3_Witness ==
    /\ Succeeded
    /\ transcribe_results = <<[index |-> 0, ok |-> TRUE, text |-> <<" ", "b">>],
                              [index |-> 1, ok |-> TRUE, text |-> <<"c", " ">>]>>
    /\ text_area = {<<"b", " ", "c">>}

\* C4: once the backend call for segment k has failed, no backend call for a
\* later segment is ever made, neither the result display nor the download is
\* rendered (although the texts of segments < k are still in the list), and
\* the failure reaches the except handler, which shows it as an error.
C4_BackendFailureAborts ==
    \A j \in 1..NumResults :
        ~transcribe_results[j].ok =>
            /\ j = NumResults
            /\ Len(transcribe_calls) = j
            /\ \A c \in 1..Len(transcribe_calls) :
                   transcribe_calls[c] <= transcribe_results[j].index
            /\ text_area = {}
            /\ download_button = {}
            /\ exc.kind = "backend"
            /\ pc \in {"except", "finally", "done"}
            /\ (Ended => ErrorShown(exc.cause) /\ ~uncaught
                         /\ status_text.kind = "error")

C4_Witness ==
    /\ pc = "done"
    /\ num_chunks = 3
    /\ transcribe_results = <<[index |-> 0, ok |-> TRUE, text |-> <<"a">>],
                              [index |-> 1, ok |-> FALSE, text |-> << >>]>>
    /\ all_transcripts = <<(<<"a">>)>>
    /\ text_area = {}

\* C5: when the backend call fails on segment k, what the user is shown at the
\* end of the run identifies k.
C5_ErrorIdentifiesSegment ==
    pc = "done" /\ exc.kind = "backend" =>
        SegmentIdentified(transcribe_results[NumResults].index)

C7_SequentialCalls ==
    /\ \A c \in 1..Len(transcribe_calls) : transcribe_calls[c] = c - 1
    /\ \A j \in 1..NumResults : transcribe_results[j].index = transcribe_calls[j]
    /\ Len(transcribe_calls) - NumResults = (IF pc = "in_backend" THEN 1 ELSE 0)
    /\ Len(transcribe_calls) <= (IF num_chunks = Unbound THEN 0 ELSE num_chunks)
    /\ (pc = "done" /\ num_chunks # Unbound /\ AllCallsOk =>
            /\ Len(transcribe_calls) = num_chunks
            /\ NumResults = num_chunks
            /\ (num_chunks > 0 => text_area # {}))

C7_Witness ==
    /\ Succeeded
    /\ transcribe_calls = <<0, 1, 2>>
    /\ NumResults = 3
    /\ text_area # {}

\* C8: a progress update naming chunk i+1 of n is shown only after the backend
\* call for segment i has returned and its text is in the list, and the bar
\* never shows 100 percent of the transcription while a call is still to
\* return.
C8_ProgressNeverAhead ==
    /\ (progress_bar.chunk > 0 => progress_bar.chunk <= Len(all_transcripts))
    /\ (progress_bar.value = 100 /\ progress_bar.text \in {"processing", "completed"}
            => Len(all_transcripts) = num_chunks)

\* C9: a progress widget that raises does not change the outcome: the run of
\* a decodable upload in which no backend call fails still calls the backend
\* for every segment and shows the transcript.
C9_SinkFailureHarmless ==
    pc = "done" /\ uploaded_file.decodable /\ AllCallsOk =>
        /\ Len(transcribe_calls) = CeilDiv(uploaded_file.duration, L)
        /\ (uploaded_file.duration > 0 => text_area # {})

\* C10: an upload that cannot be converted aborts the run at the conversion:
\* the duration and the segment count are never computed, no chunk is cut, the
\* backend is never called, no transcript is rendered, and the failure is
\* shown as an error by the except handler.
C10_ConversionFailureAborts ==
    /\ (~uploaded_file.decodable =>
            /\ pc \in {"idle", "save", "convert_begin", "convert"}
                   \/ exc.kind = "conversion"
            /\ total_length_ms = Unbound
            /\ num_chunks = Unbound
            /\ chunk_files = << >>
            /\ transcribe_calls = << >>
            /\ text_area = {}
            /\ download_button = {})
    /\ (exc.kind = "conversion" =>
            /\ ~uploaded_file.decodable
            /\ pc \in {"except", "finally", "done"}
            /\ ErrorShown("ConversionError")
            /\ (Ended =>
                    /\ ~uncaught
                    /\ status_text.kind = "error"
                    /\ \E p \in 1..Len(page) :
                          page[p] = Element("error", "error content",
                                            <<"ConversionError", Unbound>>)))

C10_Witness ==
    /\ pc = "done"
    /\ exc.kind = "conversion"
    /\ progress_bar = Progress(100, "error", 0, 0)

====
